---- MODULE Spec2Model ----
(***************************************************************************)
(* ecs-deploy: the task definition model (ecs.py, EcsTaskDefinition), the  *)
(* service model (EcsService), is_deployed (EcsAction) and the deploy and  *)
(* scale commands with their convergence poller (cli.py).                  *)
(*                                                                         *)
(* Strings the code takes apart (images, tags, commands) are sequences of  *)
(* one-character strings.  A Python value that may be None is a sequence   *)
(* of length at most one: None is <<>>, the value v is <<v>>.  A Python    *)
(* dict is a sequence of [name, value] records with distinct names, in     *)
(* insertion order.                                                        *)
(***************************************************************************)
EXTENDS Integers, Sequences, FiniteSets, TLC

VARIABLES
    containers,     \* EcsTaskDefinition[u'containerDefinitions']
    diff,           \* EcsTaskDefinition._diff
    taskRoleArn,    \* EcsTaskDefinition[u'taskRoleArn']
    call,           \* the last call made on the task definition, with its arguments and outcome
    ncalls,         \* number of calls made on the task definition
    service,        \* the EcsService last built from a describe-services response
    now,            \* the clock, datetime.now()
    eval,           \* the last evaluation made on the service, with the responses it was given
    pc,             \* where the deploy or scale command stands
    args,           \* the command line: command, timeout, tag, New Relic options, desired count
    trace,          \* the remote calls, in-memory mutations and sleeps so far, with their outcomes
    exit,           \* the process exit status, -1 while the process runs
    waiting,        \* wait_for_finish: waiting
    waiting_timeout,\* wait_for_finish: waiting_timeout
    polled,         \* wait_for_finish: whether its local `service` is bound
    verdict,        \* how the process ended: success, failure, timeout, or aborted by an exception
    action_service, \* EcsAction._service
    remote,         \* the remote side: registered task definitions, the service's reference and count
    exception,      \* the exception that left the try block of the command, "none" when none did
    started_tasks,  \* RunAction.started_tasks
    run             \* the last RunAction.run call: its request, the response it got, its outcome

tdVars == <<containers, diff, taskRoleArn, call, ncalls>>
svcVars == <<service, now, eval>>
pollVars == <<waiting, waiting_timeout, polled>>
runVars == <<started_tasks, run>>
procVars == <<pc, args, trace, exit, waiting, waiting_timeout, polled, verdict,
              action_service, remote, exception, started_tasks, run>>

vars == <<containers, diff, taskRoleArn, call, ncalls, service, now, eval,
          pc, args, trace, exit, waiting, waiting_timeout, polled, verdict,
          action_service, remote, exception, started_tasks, run>>

-----------------------------------------------------------------------------
(* Bounds *)

MaxCalls == 2       \* calls made on one task definition instance
MaxEnvLen == 2      \* length of the environment_list argument of set_environment
MaxDeployments == 2 \* deployments in a service snapshot
MaxEvents == 2      \* events in a service snapshot
MaxTime == 6        \* latest event timestamp
MaxDesired == 2     \* largest desired count
MaxTasks == 2       \* tasks in a describe-tasks response
MaxTimeout == 2     \* largest --timeout
MaxSleep == 2       \* longest time one loop iteration (sleep(1) and its calls) takes
PollStart == 5      \* the clock when the command starts
MaxRuns == 2        \* RunAction.run calls on one action object

-----------------------------------------------------------------------------
(* Python values *)

None == <<>>
Some(v) == <<v>>
IsNone(o) == Len(o) = 0
Get(o) == o[1]

\* bool(x) of a str, list or dict held as a sequence; bool(None) of an optional
Truthy(s) == Len(s) > 0
\* bool(x) of an optional string: None and '' are falsy
TruthyOpt(o) == Len(o) > 0 /\ Len(o[1]) > 0

\* the empty **kwargs
NoKwargs == [n \in {} |-> <<>>]

RECURSIVE ConcatAll(_)
ConcatAll(ss) == IF Len(ss) = 0 THEN <<>> ELSE Head(ss) \o ConcatAll(Tail(ss))

\* index of the last c in s, 0 when there is none
LastIndexOf(s, c) ==
    IF \E i \in 1..Len(s) : s[i] = c
    THEN CHOOSE i \in 1..Len(s) : s[i] = c /\ \A j \in (i+1)..Len(s) : s[j] # c
    ELSE 0

\* s.rsplit(c, 1)[0]
RSplitHead(s, c) ==
    IF LastIndexOf(s, c) = 0 THEN s ELSE SubSeq(s, 1, LastIndexOf(s, c) - 1)

\* s.strip()
RECURSIVE LStrip(_)
LStrip(s) == IF Len(s) > 0 /\ Head(s) = " " THEN LStrip(Tail(s)) ELSE s
RECURSIVE RStrip(_)
RStrip(s) == IF Len(s) > 0 /\ s[Len(s)] = " " THEN RStrip(SubSeq(s, 1, Len(s) - 1)) ELSE s
Strip(s) == RStrip(LStrip(s))

\* s.split(' '): one more piece than there are spaces, pieces may be empty
RECURSIVE SplitFrom(_, _)
SplitFrom(s, cur) ==
    IF Len(s) = 0 THEN <<cur>>
    ELSE IF Head(s) = " " THEN <<cur>> \o SplitFrom(Tail(s), <<>>)
    ELSE SplitFrom(Tail(s), Append(cur, Head(s)))

\* dict lookups and updates on a sequence of [name, value] records
DictKeys(d) == {d[i].name : i \in 1..Len(d)}
DictGet(d, k) == d[CHOOSE i \in 1..Len(d) : d[i].name = k].value
DictSet(d, k, v) ==
    IF k \in DictKeys(d)
    THEN [i \in 1..Len(d) |-> IF d[i].name = k THEN [name |-> k, value |-> v] ELSE d[i]]
    ELSE Append(d, [name |-> k, value |-> v])
\* {e['name']: e['value'] for e in l}
RECURSIVE DictFromList(_)
DictFromList(l) ==
    IF Len(l) = 0 THEN <<>>
    ELSE DictSet(DictFromList(SubSeq(l, 1, Len(l) - 1)), l[Len(l)].name, l[Len(l)].value)
\* d.update(new)
RECURSIVE DictUpdate(_, _)
DictUpdate(d, new) ==
    IF Len(new) = 0 THEN d
    ELSE DictUpdate(DictSet(d, Head(new).name, Head(new).value), Tail(new))
\* [{"name": e, "value": d[e]} for e in d]
ListFromDict(d) == [i \in 1..Len(d) |-> [name |-> d[i].name, value |-> DictGet(d, d[i].name)]]

-----------------------------------------------------------------------------
(* EcsTaskDefinitionDiff *)

\* the value and old_value of a diff: a string, a list of strings, a dict or None
StrVal(s) == [t |-> "str", s |-> s, l |-> <<>>, e |-> <<>>]
ListVal(l) == [t |-> "list", s |-> <<>>, l |-> l, e |-> <<>>]
DictVal(e) == [t |-> "dict", s |-> <<>>, l |-> <<>>, e |-> e]
NoneVal == [t |-> "none", s |-> <<>>, l |-> <<>>, e |-> <<>>]
OptStrVal(o) == IF IsNone(o) THEN NoneVal ELSE StrVal(Get(o))
OptListVal(o) == IF IsNone(o) THEN NoneVal ELSE ListVal(Get(o))

EcsTaskDefinitionDiff(container, field, value, old_value) ==
    [container |-> container, field |-> field, value |-> value, old_value |-> old_value]

-----------------------------------------------------------------------------
(* EcsTaskDefinition *)

container_names(cs) == {cs[i].name : i \in 1..Len(cs)}

\* variant: accepts the options as soon as one of the names is known
validate_container_options_any(cs, names) ==
    names = {} \/ \E n \in names : n \in container_names(cs)

\* TRUE when validate_container_options returns, FALSE when it raises UnknownContainerError
validate_container_options(cs, names) ==
    \A n \in names : n \in container_names(cs)

\* variant: `elif tag is not None`, which takes the empty tag for a tag
SetImagesTouches_notNone(c, tag, images) == c.name \in DOMAIN images \/ ~IsNone(tag)

\* the image set_images gives one container, and whether it assigns one at all
SetImagesTouches(c, tag, images) == c.name \in DOMAIN images \/ TruthyOpt(tag)
\* variant: the tag appended as it was given, without tag.strip()
SetImagesNewImage_untrimmed(c, tag, images) ==
    IF c.name \in DOMAIN images THEN images[c.name]
    ELSE RSplitHead(c.image, ":") \o <<":">> \o Get(tag)

SetImagesNewImage(c, tag, images) ==
    IF c.name \in DOMAIN images THEN images[c.name]
    ELSE RSplitHead(c.image, ":") \o <<":">> \o Strip(Get(tag))

set_images(cs, df, tag, images) ==
    IF ~validate_container_options(cs, DOMAIN images)
    THEN [containers |-> cs, diff |-> df, result |-> "UnknownContainerError"]
    ELSE [containers |->
            [i \in 1..Len(cs) |->
                IF SetImagesTouches(cs[i], tag, images)
                THEN [cs[i] EXCEPT !.image = SetImagesNewImage(cs[i], tag, images)]
                ELSE cs[i]],
          diff |-> df \o ConcatAll(
            [i \in 1..Len(cs) |->
                IF SetImagesTouches(cs[i], tag, images)
                THEN <<EcsTaskDefinitionDiff(Some(cs[i].name), "image",
                          StrVal(SetImagesNewImage(cs[i], tag, images)), StrVal(cs[i].image))>>
                ELSE <<>>]),
          result |-> "ok"]

set_commands(cs, df, commands) ==
    IF ~validate_container_options(cs, DOMAIN commands)
    THEN [containers |-> cs, diff |-> df, result |-> "UnknownContainerError"]
    ELSE [containers |->
            [i \in 1..Len(cs) |->
                IF cs[i].name \in DOMAIN commands
                THEN [cs[i] EXCEPT !.command = Some(<<commands[cs[i].name]>>)]
                ELSE cs[i]],
          diff |-> df \o ConcatAll(
            [i \in 1..Len(cs) |->
                IF cs[i].name \in DOMAIN commands
                THEN <<EcsTaskDefinitionDiff(Some(cs[i].name), "command",
                          StrVal(commands[cs[i].name]), OptListVal(cs[i].command))>>
                ELSE <<>>]),
          result |-> "ok"]

\* the dict set_environment builds from its triples: container name -> {variable: value}
RECURSIVE GroupEnvironment(_)
GroupEnvironment(environment_list) ==
    IF Len(environment_list) = 0 THEN <<>>
    ELSE LET env == environment_list[Len(environment_list)]
             rest == GroupEnvironment(SubSeq(environment_list, 1, Len(environment_list) - 1))
             inner == IF env[1] \in DictKeys(rest) THEN DictGet(rest, env[1]) ELSE <<>>
         IN DictSet(rest, env[1], DictSet(inner, env[2], env[3]))

\* container.get('environment', {}) turned into a dict
OldEnvironment(c) == IF IsNone(c.environment) THEN <<>> ELSE DictFromList(Get(c.environment))
\* variant: the new variables replace the container's environment
MergedEnvironment_replaces(c, new_environment) == new_environment

MergedEnvironment(c, new_environment) == DictUpdate(OldEnvironment(c), new_environment)

\* variant: the new variables appended to the container's list, not merged into it
apply_container_environment_appends(c, new_environment) ==
    [container |-> [c EXCEPT !.environment =
                        Some((IF IsNone(c.environment) THEN <<>> ELSE Get(c.environment))
                             \o ListFromDict(new_environment))],
     diff |-> EcsTaskDefinitionDiff(Some(c.name), "environment",
                DictVal(MergedEnvironment(c, new_environment)), DictVal(OldEnvironment(c)))]

apply_container_environment(c, new_environment) ==
    [container |-> [c EXCEPT !.environment = Some(ListFromDict(MergedEnvironment(c, new_environment)))],
     diff |-> EcsTaskDefinitionDiff(Some(c.name), "environment",
                DictVal(MergedEnvironment(c, new_environment)), DictVal(OldEnvironment(c)))]

set_environment(cs, df, environment_list) ==
    LET environment == GroupEnvironment(environment_list) IN
    IF ~validate_container_options(cs, DictKeys(environment))
    THEN [containers |-> cs, diff |-> df, result |-> "UnknownContainerError"]
    ELSE [containers |->
            [i \in 1..Len(cs) |->
                IF cs[i].name \in DictKeys(environment)
                THEN apply_container_environment(cs[i], DictGet(environment, cs[i].name)).container
                ELSE cs[i]],
          diff |-> df \o ConcatAll(
            [i \in 1..Len(cs) |->
                IF cs[i].name \in DictKeys(environment)
                THEN <<apply_container_environment(cs[i], DictGet(environment, cs[i].name)).diff>>
                ELSE <<>>]),
          result |-> "ok"]

\* `role` is None when the payload has no taskRoleArn key: self[u'taskRoleArn'] raises then
set_role_arn(role, df, role_arn) ==
    IF ~TruthyOpt(role_arn)
    THEN [taskRoleArn |-> role, diff |-> df, result |-> "ok"]
    ELSE IF IsNone(role)
    THEN [taskRoleArn |-> role, diff |-> df, result |-> "KeyError"]
    ELSE [taskRoleArn |-> role_arn,
          diff |-> Append(df, EcsTaskDefinitionDiff(None, "role_arn", StrVal(Get(role_arn)), StrVal(Get(role)))),
          result |-> "ok"]

\* variant: the command kept as one argument
get_overrides_command_whole(command) == <<command>>

get_overrides_command(command) == SplitFrom(command, <<>>)

get_overrides_environment(environment_dict) == ListFromDict(environment_dict)

\* one override dict: its name, and its command and environment keys when set
NewOverride(name) == [name |-> name, command |-> None, environment |-> None]

\* the diff's field written into an override dict
OverrideWith(override, d) ==
    IF d.field = "command"
    THEN [override EXCEPT !.command = Some(get_overrides_command(d.value.s))]
    ELSE IF d.field = "environment"
    THEN [override EXCEPT !.environment = Some(get_overrides_environment(d.value.e))]
    ELSE override

\* The loop of get_overrides over the first n diffs.  `override` is the dict
\* the loop variable refers to: the last element of `overrides` once one was
\* appended (appended = TRUE), the initial dict() before that.
RECURSIVE GetOverridesLoop(_, _)
GetOverridesLoop(df, n) ==
    IF n = 0 THEN [overrides |-> <<>>, override |-> NewOverride(None), appended |-> FALSE]
    ELSE LET prev == GetOverridesLoop(df, n - 1)
             d == df[n]
             fresh == prev.override.name # d.container
             override == OverrideWith(IF fresh THEN NewOverride(d.container) ELSE prev.override, d)
         IN [overrides |->
                IF fresh THEN Append(prev.overrides, override)
                ELSE IF prev.appended
                THEN [prev.overrides EXCEPT ![Len(prev.overrides)] = override]
                ELSE prev.overrides,
             override |-> override,
             appended |-> prev.appended \/ fresh]

get_overrides(df) == GetOverridesLoop(df, Len(df)).overrides

-----------------------------------------------------------------------------
(* The task definition under a sequence of calls *)

AllNames == {"c1", "c2", "cx"}      \* "cx" is in no task definition

\* the describe-task-definition payloads an instance is constructed from
Payloads ==
    { [containerDefinitions |->
         << [name |-> "c1", image |-> <<"r", ":", "a">>, command |-> None, environment |-> None],
            [name |-> "c2", image |-> <<"h", ":", "p">>, command |-> Some(<< <<"s">> >>),
             environment |-> Some(<< [name |-> "X", value |-> "1"], [name |-> "Y", value |-> "2"] >>)] >>,
       taskRoleArn |-> None],
      [containerDefinitions |->
         << [name |-> "c1", image |-> <<"r">>, command |-> Some(<< <<"s">> >>),
             environment |-> Some(<< [name |-> "Y", value |-> "2"] >>)],
            [name |-> "c2", image |-> <<"r", ":", "a">>, command |-> None, environment |-> None] >>,
       taskRoleArn |-> Some(<<"o">>)] }

Tags == {None, Some(<<>>), Some(<<" ", "b", " ">>)}
OverrideImages == {<<"n", ":", "v">>}
\* the sets of container names one call names
KwargNames == {{}, {"c1"}, {"c1", "c2"}, {"cx"}, {"c1", "cx"}}
ImageOverrides == UNION {[S -> OverrideImages] : S \in KwargNames}
OverrideCommands == {<<"r", " ", "x">>}
CommandOverrides == UNION {[S -> OverrideCommands] : S \in KwargNames}
EnvTriples == {<<"c1", "X", "1">>, <<"c1", "X", "2">>, <<"c2", "X", "3">>, <<"cx", "X", "1">>}
\* the lists of distinct triples
EnvironmentLists ==
    UNION {{l \in [1..n -> EnvTriples] : \A i, j \in 1..n : i # j => l[i] # l[j]} : n \in 0..MaxEnvLen}
RoleArns == {None, Some(<<>>), Some(<<"r">>)}

NoCall ==
    [op |-> "none", tag |-> None, kwargs |-> NoKwargs, environment_list |-> <<>>, role_arn |-> None,
     containers |-> <<>>, diff |-> <<>>, taskRoleArn |-> None, result |-> "ok", overrides |-> <<>>]

\* the record of a call: its arguments, the instance before it, its outcome
Called(op, tag, kwargs, environment_list, role_arn, result, overrides) ==
    [op |-> op, tag |-> tag, kwargs |-> kwargs, environment_list |-> environment_list,
     role_arn |-> role_arn, containers |-> containers, diff |-> diff, taskRoleArn |-> taskRoleArn,
     result |-> result, overrides |-> overrides]

NoArgs == [command |-> "none", timeout |-> 0, tag |-> <<>>, newrelic |-> FALSE, desired_count |-> 0]
NoRemote == [taskDefinitions |-> {}, serviceTaskDefinition |-> "", desiredCount |-> 0]
NoActionService == [desiredCount |-> 0, taskDefinition |-> ""]
\* no RunAction.run call was made
NoRun == [n |-> 0, count |-> 0, overrides |-> <<>>, response |-> [ok |-> FALSE, value |-> <<>>],
          result |-> "none", started_tasks |-> <<>>]

\* no command runs
ProcIdle ==
    /\ pc = "idle"
    /\ args = NoArgs
    /\ trace = <<>>
    /\ exit = -1
    /\ waiting = FALSE
    /\ waiting_timeout = 0
    /\ polled = FALSE
    /\ verdict = "none"
    /\ action_service = NoActionService
    /\ remote = NoRemote
    /\ exception = "none"
    /\ started_tasks = <<>>
    /\ run = NoRun

NoService == [deployments |-> <<>>, events |-> <<>>, desiredCount |-> 0, taskDefinition |-> ""]
NoResponse == [ok |-> FALSE, value |-> <<>>]
NoWarnings == [raised |-> FALSE, errors |-> <<>>]
NoEval ==
    [op |-> "none", errors |-> NoWarnings, older_errors |-> NoWarnings,
     list_tasks |-> NoResponse, describe_tasks |-> NoResponse, result |-> "false", calls |-> <<>>]

InitTD ==
    /\ \E p \in Payloads :
          /\ containers = p.containerDefinitions
          /\ taskRoleArn = p.taskRoleArn
    /\ diff = <<>>
    /\ call = NoCall
    /\ ncalls = 0
    /\ service = NoService
    /\ now = 0
    /\ eval = NoEval
    /\ ProcIdle

SetImages ==
    /\ ncalls < MaxCalls
    /\ \E tag \in Tags, images \in ImageOverrides :
          LET r == set_images(containers, diff, tag, images) IN
          /\ containers' = r.containers
          /\ diff' = r.diff
          /\ call' = Called("set_images", tag, images, <<>>, None, r.result, <<>>)
    /\ ncalls' = ncalls + 1
    /\ UNCHANGED <<taskRoleArn, svcVars, procVars>>

SetCommands ==
    /\ ncalls < MaxCalls
    /\ \E commands \in CommandOverrides :
          LET r == set_commands(containers, diff, commands) IN
          /\ containers' = r.containers
          /\ diff' = r.diff
          /\ call' = Called("set_commands", None, commands, <<>>, None, r.result, <<>>)
    /\ ncalls' = ncalls + 1
    /\ UNCHANGED <<taskRoleArn, svcVars, procVars>>

SetEnvironment ==
    /\ ncalls < MaxCalls
    /\ \E environment_list \in EnvironmentLists :
          LET r == set_environment(containers, diff, environment_list) IN
          /\ containers' = r.containers
          /\ diff' = r.diff
          /\ call' = Called("set_environment", None, NoKwargs, environment_list, None, r.result, <<>>)
    /\ ncalls' = ncalls + 1
    /\ UNCHANGED <<taskRoleArn, svcVars, procVars>>

SetRoleArn ==
    /\ ncalls < MaxCalls
    /\ \E role_arn \in RoleArns :
          LET r == set_role_arn(taskRoleArn, diff, role_arn) IN
          /\ taskRoleArn' = r.taskRoleArn
          /\ diff' = r.diff
          /\ call' = Called("set_role_arn", None, NoKwargs, <<>>, role_arn, r.result, <<>>)
    /\ ncalls' = ncalls + 1
    /\ UNCHANGED <<containers, svcVars, procVars>>

GetOverrides ==
    /\ ncalls < MaxCalls
    /\ call' = Called("get_overrides", None, NoKwargs, <<>>, None, "ok", get_overrides(diff))
    /\ ncalls' = ncalls + 1
    /\ UNCHANGED <<containers, diff, taskRoleArn, svcVars, procVars>>

NextTD == SetImages \/ SetCommands \/ SetEnvironment \/ SetRoleArn \/ GetOverrides

SpecTD == InitTD /\ [][NextTD]_vars

-----------------------------------------------------------------------------
(* EcsService *)

\* A datetime: t is the instant, aware tells whether it carries a time zone.
\* The remote payload's datetimes and datetime.now(tz=tzlocal()) are aware,
\* datetime.now() is naive.
Aware(t) == [t |-> t, aware |-> TRUE]
Naive(t) == [t |-> t, aware |-> FALSE]

\* variant: a <= b
DatetimeLe(a, b) ==
    IF a.aware # b.aware THEN "raise" ELSE IF a.t <= b.t THEN "true" ELSE "false"

\* a < b on datetimes: comparing a naive with an aware one raises TypeError
DatetimeLt(a, b) ==
    IF a.aware # b.aware THEN "raise" ELSE IF a.t < b.t THEN "true" ELSE "false"

HasPrimary(svc) ==
    \E i \in 1..Len(svc.deployments) : svc.deployments[i].status = "PRIMARY"
FirstPrimary(svc) ==
    svc.deployments[CHOOSE i \in 1..Len(svc.deployments) :
        /\ svc.deployments[i].status = "PRIMARY"
        /\ \A j \in 1..(i - 1) : svc.deployments[j].status # "PRIMARY"]

deployment_created_at(svc, clock) ==
    IF HasPrimary(svc) THEN FirstPrimary(svc).createdAt ELSE Naive(clock)

deployment_updated_at(svc, clock) ==
    IF HasPrimary(svc) THEN FirstPrimary(svc).updatedAt ELSE Naive(clock)

\* u'unable' in message, a message being a sequence of words
HasMarker(message) == \E i \in 1..Len(message) : message[i] = "unable"

\* The loop of get_warnings over the first n events: the errors dict so far,
\* or raised = TRUE once a comparison raised.
RECURSIVE GetWarningsLoop(_, _, _, _)
GetWarningsLoop(events, n, since, until) ==
    IF n = 0 THEN [raised |-> FALSE, errors |-> <<>>]
    ELSE LET prev == GetWarningsLoop(events, n - 1, since, until)
             event == events[n]
             raise == [raised |-> TRUE, errors |-> <<>>]
         IN IF prev.raised \/ ~HasMarker(event.message) THEN prev
            ELSE IF DatetimeLt(since, event.createdAt) = "raise" THEN raise
            ELSE IF DatetimeLt(since, event.createdAt) = "false" THEN prev
            ELSE IF DatetimeLt(event.createdAt, until) = "raise" THEN raise
            ELSE IF DatetimeLt(event.createdAt, until) = "false" THEN prev
            ELSE [raised |-> FALSE, errors |-> DictSet(prev.errors, event.createdAt, event.message)]

\* since and until are given (a datetime is never falsy); until = None is Aware(clock)
get_warnings(svc, since, until) ==
    GetWarningsLoop(svc.events, Len(svc.events), since, until)

errors(svc, clock) ==
    get_warnings(svc, deployment_updated_at(svc, clock), Aware(clock))

older_errors(svc, clock) ==
    get_warnings(svc, deployment_created_at(svc, clock), deployment_updated_at(svc, clock))

-----------------------------------------------------------------------------
(* EcsAction.is_deployed *)

\* a remote call that raised
Failed == [ok |-> FALSE, value |-> <<>>]
Returned(v) == [ok |-> TRUE, value |-> v]

\* variant: every RUNNING task counted, whatever its task definition
get_running_tasks_count_anyDefinition(svc, tasks) ==
    Cardinality({i \in 1..Len(tasks) : tasks[i].lastStatus = "RUNNING"})

get_running_tasks_count(svc, tasks) ==
    Cardinality({i \in 1..Len(tasks) :
        tasks[i].taskDefinitionArn = svc.taskDefinition /\ tasks[i].lastStatus = "RUNNING"})

\* variant: without the test of the number of deployments
is_deployed_anyDeployments(svc, list_tasks, describe_tasks) ==
    IF ~list_tasks.ok
    THEN [result |-> "raise", calls |-> <<"list_tasks">>]
    ELSE IF ~Truthy(list_tasks.value)
    THEN [result |-> IF svc.desiredCount = 0 THEN "true" ELSE "false",
          calls |-> <<"list_tasks">>]
    ELSE IF ~describe_tasks.ok
    THEN [result |-> "raise", calls |-> <<"list_tasks", "describe_tasks">>]
    ELSE [result |-> IF svc.desiredCount = get_running_tasks_count(svc, describe_tasks.value)
                     THEN "true" ELSE "false",
          calls |-> <<"list_tasks", "describe_tasks">>]

\* variant: without the shortcut on an empty task list
is_deployed_alwaysDescribes(svc, list_tasks, describe_tasks) ==
    IF Len(svc.deployments) # 1
    THEN [result |-> "false", calls |-> <<>>]
    ELSE IF ~list_tasks.ok
    THEN [result |-> "raise", calls |-> <<"list_tasks">>]
    ELSE IF ~describe_tasks.ok
    THEN [result |-> "raise", calls |-> <<"list_tasks", "describe_tasks">>]
    ELSE [result |-> IF svc.desiredCount = get_running_tasks_count(svc, describe_tasks.value)
                     THEN "true" ELSE "false",
          calls |-> <<"list_tasks", "describe_tasks">>]

\* variant: the tasks listed before the number of deployments is tested
is_deployed_listsFirst(svc, list_tasks, describe_tasks) ==
    IF ~list_tasks.ok
    THEN [result |-> "raise", calls |-> <<"list_tasks">>]
    ELSE IF Len(svc.deployments) # 1
    THEN [result |-> "false", calls |-> <<"list_tasks">>]
    ELSE IF ~Truthy(list_tasks.value)
    THEN [result |-> IF svc.desiredCount = 0 THEN "true" ELSE "false",
          calls |-> <<"list_tasks">>]
    ELSE IF ~describe_tasks.ok
    THEN [result |-> "raise", calls |-> <<"list_tasks", "describe_tasks">>]
    ELSE [result |-> IF svc.desiredCount = get_running_tasks_count(svc, describe_tasks.value)
                     THEN "true" ELSE "false",
          calls |-> <<"list_tasks", "describe_tasks">>]

\* is_deployed given the responses list_tasks and describe_tasks would give:
\* its result ("true", "false", or "raise" when a remote call raised) and the
\* remote calls it issued, in order.
is_deployed(svc, list_tasks, describe_tasks) ==
    IF Len(svc.deployments) # 1
    THEN [result |-> "false", calls |-> <<>>]
    ELSE IF ~list_tasks.ok
    THEN [result |-> "raise", calls |-> <<"list_tasks">>]
    ELSE IF ~Truthy(list_tasks.value)
    THEN [result |-> IF svc.desiredCount = 0 THEN "true" ELSE "false",
          calls |-> <<"list_tasks">>]
    ELSE IF ~describe_tasks.ok
    THEN [result |-> "raise", calls |-> <<"list_tasks", "describe_tasks">>]
    ELSE [result |-> IF svc.desiredCount = get_running_tasks_count(svc, describe_tasks.value)
                     THEN "true" ELSE "false",
          calls |-> <<"list_tasks", "describe_tasks">>]

-----------------------------------------------------------------------------
(* The service model and is_deployed on one snapshot *)

CurrentArn == "td:2"
OtherArn == "td:1"

SvcDeployments ==
    { [status |-> "PRIMARY", createdAt |-> Aware(2), updatedAt |-> Aware(4)],
      [status |-> "PRIMARY", createdAt |-> Aware(3), updatedAt |-> Aware(3)],
      [status |-> "ACTIVE", createdAt |-> Aware(1), updatedAt |-> Aware(1)] }
DeploymentLists == UNION {[1..n -> SvcDeployments] : n \in 0..MaxDeployments}
Messages == {<<"service", "unable", "to", "place">>, <<"steady">>}
SvcEvents == {[createdAt |-> Aware(t), message |-> m] : t \in 1..MaxTime, m \in Messages}
EventLists == UNION {[1..n -> SvcEvents] : n \in 0..MaxEvents}

\* describe-services payloads: every event list with one desired count, every
\* desired count without events
Snapshots ==
    {[deployments |-> d, events |-> e, desiredCount |-> 1, taskDefinition |-> CurrentArn] :
        d \in DeploymentLists, e \in EventLists}
    \cup
    {[deployments |-> d, events |-> <<>>, desiredCount |-> n, taskDefinition |-> CurrentArn] :
        d \in DeploymentLists, n \in 0..MaxDesired}

SvcTasks ==
    { [taskDefinitionArn |-> CurrentArn, lastStatus |-> "RUNNING"],
      [taskDefinitionArn |-> CurrentArn, lastStatus |-> "PENDING"],
      [taskDefinitionArn |-> OtherArn, lastStatus |-> "RUNNING"] }
\* list-tasks responses: the call raises, or returns the task arns
ListTasksResponses == {Failed, Returned(<<>>), Returned(<<"t1">>), Returned(<<"t1", "t2">>)}
\* describe-tasks responses: the call raises, or returns the tasks' details
DescribeTasksResponses ==
    {Failed} \cup {Returned(ts) : ts \in UNION {[1..n -> SvcTasks] : n \in 0..MaxTasks}}

InitSvc ==
    /\ service \in Snapshots
    /\ now \in {MaxTime - 1, MaxTime}
    /\ eval = NoEval
    /\ containers = <<>>
    /\ taskRoleArn = None
    /\ diff = <<>>
    /\ call = NoCall
    /\ ncalls = 0
    /\ ProcIdle

\* service.errors and service.older_errors read, as print_errors reads them
Warnings ==
    /\ eval.op = "none"
    /\ eval' = [eval EXCEPT !.op = "warnings",
                            !.errors = errors(service, now),
                            !.older_errors = older_errors(service, now)]
    /\ UNCHANGED <<tdVars, service, now, procVars>>

\* action.is_deployed(service); describe_tasks is drawn only when it is called
IsDeployed ==
    /\ eval.op = "none"
    /\ service.events = <<>>
    /\ \E l \in ListTasksResponses :
       \E d \in (IF l.ok /\ Truthy(l.value) THEN DescribeTasksResponses ELSE {Failed}) :
          LET r == is_deployed(service, l, d) IN
          eval' = [eval EXCEPT !.op = "is_deployed", !.list_tasks = l, !.describe_tasks = d,
                                !.result = r.result, !.calls = r.calls]
    /\ UNCHANGED <<tdVars, service, now, procVars>>

NextSvc == Warnings \/ IsDeployed

SpecSvc == InitSvc /\ [][NextSvc]_vars

-----------------------------------------------------------------------------
(* The deploy and scale commands (cli.py) *)

OldArn == OtherArn      \* the task definition the service references at the start
NewArn == CurrentArn    \* the revision register-task-definition creates

\* an entry of the trace
RemoteCall(name, ok, arg) == [call |-> name, ok |-> ok, arg |-> arg, remote |-> TRUE]
Local(name, ok) == [call |-> name, ok |-> ok, arg |-> "", remote |-> FALSE]

CliTags == {None, Some(<<"b">>)}
CommandLines ==
    {[command |-> "deploy", timeout |-> t, tag |-> g, newrelic |-> n, desired_count |-> 0] :
        t \in 0..MaxTimeout, g \in CliTags, n \in BOOLEAN}
    \cup
    {[command |-> "scale", timeout |-> t, tag |-> None, newrelic |-> FALSE, desired_count |-> c] :
        t \in 0..MaxTimeout, c \in 0..1}

\* the -i, -c and -e options: none or one naming c1, or one naming the unknown cx
CliImages == {[n \in {"cx"} |-> <<"n", ":", "v">>], NoKwargs}
CliCommands == {[n \in {"cx"} |-> <<"r", " ", "x">>], [n \in {"c1"} |-> <<"r", " ", "x">>]}
CliEnvs == {<< <<"cx", "X", "1">> >>, << <<"c1", "X", "1">> >>}

\* what describe-services may return while the command polls
PollDeployments ==
    { << [status |-> "PRIMARY", createdAt |-> Aware(2), updatedAt |-> Aware(4)] >>,
      << [status |-> "PRIMARY", createdAt |-> Aware(2), updatedAt |-> Aware(4)],
         [status |-> "ACTIVE", createdAt |-> Aware(1), updatedAt |-> Aware(1)] >>,
      << [status |-> "ACTIVE", createdAt |-> Aware(1), updatedAt |-> Aware(1)] >> }
PollEvents ==
    { <<>>,
      << [createdAt |-> Aware(5), message |-> <<"service", "unable", "to", "place">>] >>,
      << [createdAt |-> Aware(3), message |-> <<"service", "unable", "to", "place">>] >> }
PollSnapshots ==
    {[deployments |-> d, events |-> e, desiredCount |-> remote.desiredCount,
      taskDefinition |-> remote.serviceTaskDefinition] : d \in PollDeployments, e \in PollEvents}
PollListTasks == {Failed, Returned(<<>>), Returned(<<"t1">>)}
PollDescribeTasks ==
    {Failed,
     Returned(<< [taskDefinitionArn |-> NewArn, lastStatus |-> "RUNNING"] >>),
     Returned(<< [taskDefinitionArn |-> OldArn, lastStatus |-> "RUNNING"] >>),
     Returned(<< [taskDefinitionArn |-> NewArn, lastStatus |-> "PENDING"] >>)}

Init ==
    /\ pc = "start"
    /\ args \in CommandLines
    /\ trace = <<>>
    /\ exit = -1
    /\ waiting = FALSE
    /\ waiting_timeout = 0
    /\ polled = FALSE
    /\ verdict = "none"
    /\ action_service = NoActionService
    /\ remote = [taskDefinitions |-> {OldArn}, serviceTaskDefinition |-> OldArn, desiredCount |-> 1]
    /\ exception = "none"
    /\ started_tasks = <<>>
    /\ run = NoRun
    /\ service = NoService
    /\ now = PollStart
    /\ eval = NoEval
    /\ containers = <<>>
    /\ taskRoleArn = None
    /\ diff = <<>>
    /\ call = NoCall
    /\ ncalls = 0

\* except Exception as e: ... exit(1), reached with the trace tr by the exception e
Abort(tr, e) ==
    /\ trace' = tr
    /\ pc' = "done"
    /\ exit' = 1
    /\ verdict' = "aborted"
    /\ exception' = e

\* How self.get_service() may end in the constructor: it returns ("ok"), the
\* services list is empty (IndexError), the client raises ClientError or
\* NoCredentialsError, or something else is raised ("Exception").
GetServiceOutcomes == {"ok", "IndexError", "ClientError", "NoCredentialsError", "Exception"}

\* variant: only ClientError becomes ConnectionError
EcsAction_init_clientErrorOnly(outcome) ==
    [calls |-> <<"describe_services">>,
     raised |-> IF outcome = "ok" THEN "none"
                ELSE IF outcome = "ClientError" THEN "ConnectionError"
                ELSE outcome]

\* EcsAction.__init__: the remote calls it issues and the exception it raises,
\* "none" when the object is constructed
EcsAction_init(outcome) ==
    [calls |-> <<"describe_services">>,
     raised |-> IF outcome = "ok" THEN "none"
                ELSE IF outcome \in {"IndexError", "ClientError", "NoCredentialsError"}
                THEN "ConnectionError"
                ELSE outcome]

\* RunAction.__init__ does not call EcsAction.__init__: no remote call, no exception
RunAction_init == [calls |-> <<>>, raised |-> "none"]

\* the trace entries of the calls a constructor issued, each with how it ended
\* (in place of an argument): the last one failed when the constructor raised
ConstructorCalls(r, outcome) ==
    [i \in 1..Len(r.calls) |->
        RemoteCall(r.calls[i], ~(r.raised # "none" /\ i = Len(r.calls)), outcome)]

\* DeployAction(client, cluster, service) / ScaleAction(client, cluster, service)
Construct ==
    /\ pc = "start"
    /\ args.command \in {"deploy", "scale"}
    /\ \E outcome \in GetServiceOutcomes :
         LET r == EcsAction_init(outcome) IN
         IF r.raised = "none"
         THEN /\ action_service' = [desiredCount |-> remote.desiredCount,
                                    taskDefinition |-> remote.serviceTaskDefinition]
              /\ trace' = trace \o ConstructorCalls(r, outcome)
              /\ pc' = "constructed"
              /\ UNCHANGED <<exit, verdict, exception>>
         ELSE /\ Abort(trace \o ConstructorCalls(r, outcome), r.raised)
              /\ UNCHANGED action_service
    /\ UNCHANGED <<tdVars, svcVars, args, pollVars, remote, runVars>>

\* EcsClient.describe_task_definition: the exception that leaves it for the
\* one the client raised
describe_task_definition(outcome) ==
    IF outcome = "ClientError" THEN "UnknownTaskDefinitionError" ELSE outcome

\* deployment.get_current_task_definition(deployment.service)
GetCurrentTaskDefinition ==
    /\ pc = "constructed"
    /\ args.command = "deploy"
    /\ \E outcome \in {"ok", "ClientError", "Exception"} :
         IF outcome = "ok"
         THEN /\ \E p \in Payloads :
                    /\ containers' = p.containerDefinitions
                    /\ taskRoleArn' = p.taskRoleArn
              /\ diff' = <<>>
              /\ trace' = Append(trace, RemoteCall("describe_task_definition", TRUE, action_service.taskDefinition))
              /\ pc' = "fetched"
              /\ UNCHANGED <<exit, verdict, exception>>
         ELSE /\ Abort(Append(trace, RemoteCall("describe_task_definition", FALSE, action_service.taskDefinition)),
                       describe_task_definition(outcome))
              /\ UNCHANGED <<containers, taskRoleArn, diff>>
    /\ UNCHANGED <<call, ncalls, svcVars, args, pollVars, action_service, remote, runVars>>

\* variant: an UnknownContainerError of the mutation is swallowed
Mutated_ignoresFailure(name, r, next) ==
    /\ containers' = r.containers
    /\ diff' = r.diff
    /\ ncalls' = ncalls + 1
    /\ trace' = Append(trace, Local(name, r.result = "ok"))
    /\ pc' = next
    /\ UNCHANGED <<exit, verdict, exception>>
    /\ UNCHANGED <<taskRoleArn, svcVars, args, pollVars, action_service, remote, runVars>>

\* the outcome r of one in-memory mutation of the deploy command
Mutated(name, r, next) ==
    /\ containers' = r.containers
    /\ diff' = r.diff
    /\ ncalls' = ncalls + 1
    /\ IF r.result = "ok"
       THEN /\ trace' = Append(trace, Local(name, TRUE))
            /\ pc' = next
            /\ UNCHANGED <<exit, verdict, exception>>
       ELSE Abort(Append(trace, Local(name, FALSE)), r.result)
    /\ UNCHANGED <<taskRoleArn, svcVars, args, pollVars, action_service, remote, runVars>>

\* task_definition.set_images(tag, **{key: value for (key, value) in image})
CliSetImages ==
    /\ pc = "fetched"
    /\ \E images \in CliImages :
         LET r == set_images(containers, diff, args.tag, images) IN
         /\ call' = Called("set_images", args.tag, images, <<>>, None, r.result, <<>>)
         /\ Mutated("set_images", r, "images_set")

\* task_definition.set_commands(**{key: value for (key, value) in command})
CliSetCommands ==
    /\ pc = "images_set"
    /\ \E commands \in CliCommands :
         LET r == set_commands(containers, diff, commands) IN
         /\ call' = Called("set_commands", None, commands, <<>>, None, r.result, <<>>)
         /\ Mutated("set_commands", r, "commands_set")

\* task_definition.set_environment(env); print_diff(task_definition)
CliSetEnvironment ==
    /\ pc = "commands_set"
    /\ \E env \in CliEnvs :
         LET r == set_environment(containers, diff, env) IN
         /\ call' = Called("set_environment", None, NoKwargs, env, None, r.result, <<>>)
         /\ Mutated("set_environment", r, "mutated")

\* variant: the old arn deregistered before the new revision is registered
UpdateTaskDefinition_deregisterFirst ==
    /\ pc = "mutated"
    /\ \E deregistered, registered \in BOOLEAN :
         LET t1 == Append(trace, RemoteCall("deregister_task_definition", deregistered, OldArn))
             t2 == Append(t1, RemoteCall("register_task_definition", registered, ""))
         IN IF ~deregistered
            THEN Abort(t1, "Exception") /\ UNCHANGED remote
            ELSE IF ~registered
            THEN /\ Abort(t2, "Exception")
                 /\ remote' = [remote EXCEPT !.taskDefinitions = @ \ {OldArn}]
            ELSE /\ trace' = t2
                 /\ pc' = "submitted"
                 /\ remote' = [remote EXCEPT !.taskDefinitions = (@ \ {OldArn}) \cup {NewArn}]
                 /\ UNCHANGED <<exit, verdict, exception>>
    /\ UNCHANGED <<tdVars, svcVars, args, pollVars, action_service, runVars>>

\* variant: a failed deregister-task-definition is ignored
UpdateTaskDefinition_keepsGoing ==
    /\ pc = "mutated"
    /\ \E registered, deregistered \in BOOLEAN :
         LET t1 == Append(trace, RemoteCall("register_task_definition", registered, ""))
             t2 == Append(t1, RemoteCall("deregister_task_definition", deregistered, OldArn))
         IN IF ~registered
            THEN Abort(t1, "Exception") /\ UNCHANGED remote
            ELSE /\ trace' = t2
                 /\ pc' = "submitted"
                 /\ remote' = [remote EXCEPT !.taskDefinitions =
                        IF deregistered THEN (@ \cup {NewArn}) \ {OldArn} ELSE @ \cup {NewArn}]
                 /\ UNCHANGED <<exit, verdict, exception>>
    /\ UNCHANGED <<tdVars, svcVars, args, pollVars, action_service, runVars>>

\* variant: the new revision deregistered again when the old one could not be
UpdateTaskDefinition_rollsBack ==
    /\ pc = "mutated"
    /\ \E registered, deregistered \in BOOLEAN :
         LET t1 == Append(trace, RemoteCall("register_task_definition", registered, ""))
             t2 == Append(t1, RemoteCall("deregister_task_definition", deregistered, OldArn))
             t3 == Append(t2, RemoteCall("deregister_task_definition", TRUE, NewArn))
         IN IF ~registered
            THEN Abort(t1, "Exception") /\ UNCHANGED remote
            ELSE IF ~deregistered
            THEN Abort(t3, "Exception") /\ UNCHANGED remote
            ELSE /\ trace' = t2
                 /\ pc' = "submitted"
                 /\ remote' = [remote EXCEPT !.taskDefinitions = (@ \cup {NewArn}) \ {OldArn}]
                 /\ UNCHANGED <<exit, verdict, exception>>
    /\ UNCHANGED <<tdVars, svcVars, args, pollVars, action_service, runVars>>

\* deployment.update_task_definition(task_definition): register the new
\* revision, then deregister the old arn
UpdateTaskDefinition ==
    /\ pc = "mutated"
    /\ \E registered, deregistered \in BOOLEAN :
         LET t1 == Append(trace, RemoteCall("register_task_definition", registered, ""))
             t2 == Append(t1, RemoteCall("deregister_task_definition", deregistered, OldArn))
         IN IF ~registered
            THEN Abort(t1, "Exception") /\ UNCHANGED remote
            ELSE IF ~deregistered
            THEN /\ Abort(t2, "Exception")
                 /\ remote' = [remote EXCEPT !.taskDefinitions = @ \cup {NewArn}]
            ELSE /\ trace' = t2
                 /\ pc' = "submitted"
                 /\ remote' = [remote EXCEPT !.taskDefinitions = (@ \cup {NewArn}) \ {OldArn}]
                 /\ UNCHANGED <<exit, verdict, exception>>
    /\ UNCHANGED <<tdVars, svcVars, args, pollVars, action_service, runVars>>

\* record_deployment(tag, newrelic_apikey, newrelic_appid, comment, user):
\* args.newrelic tells that both the API key and the app id were given
RecordDeployment ==
    /\ pc = "submitted"
    /\ IF ~TruthyOpt(args.tag) \/ ~args.newrelic
       THEN /\ pc' = "recorded"
            /\ UNCHANGED <<trace, exit, verdict, exception>>
       ELSE \E ok \in BOOLEAN :
            IF ok
            THEN /\ trace' = Append(trace, RemoteCall("record_deployment", TRUE, ""))
                 /\ pc' = "recorded"
                 /\ UNCHANGED <<exit, verdict, exception>>
            ELSE Abort(Append(trace, RemoteCall("record_deployment", FALSE, "")), "Exception")
    /\ UNCHANGED <<tdVars, svcVars, args, pollVars, action_service, remote, runVars>>

\* action.update_service(self._service) with the service as changed to s
UpdateService(s) ==
    /\ action_service' = s
    /\ \E ok \in BOOLEAN :
         IF ok
         THEN /\ trace' = Append(trace, RemoteCall("update_service", TRUE, s.taskDefinition))
              /\ remote' = [remote EXCEPT !.serviceTaskDefinition = s.taskDefinition,
                                          !.desiredCount = s.desiredCount]
              /\ pc' = "updated"
              /\ UNCHANGED <<exit, verdict, exception>>
         ELSE /\ Abort(Append(trace, RemoteCall("update_service", FALSE, s.taskDefinition)), "Exception")
              /\ UNCHANGED remote
    /\ UNCHANGED <<tdVars, svcVars, args, pollVars, runVars>>

\* deployment.deploy(new_task_definition)
Deploy ==
    /\ pc = "recorded"
    /\ UpdateService([action_service EXCEPT !.taskDefinition = NewArn])

\* scaling.scale(desired_count)
Scale ==
    /\ pc = "constructed"
    /\ args.command = "scale"
    /\ UpdateService([action_service EXCEPT !.desiredCount = args.desired_count])

\* wait_for_finish up to its loop
WaitForFinish ==
    /\ pc = "updated"
    /\ waiting' = TRUE
    /\ waiting_timeout' = now + args.timeout
    /\ pc' = "polling"
    /\ UNCHANGED <<tdVars, svcVars, args, trace, exit, polled, verdict, action_service, remote,
                 exception, runVars>>

\* variant: waiting = not action.is_deployed(service)
StillWaiting_ignoresErrors(isd, errs) == isd = "false"

\* waiting = not action.is_deployed(service) and not service.errors
\* (errs is read only when is_deployed returned False)
StillWaiting(isd, errs) == isd = "false" /\ ~Truthy(errs.errors)

\* the trace entries of the calls is_deployed issued: the last one failed when it raised
IsDeployedCalls(r) ==
    [i \in 1..Len(r.calls) |-> RemoteCall(r.calls[i], ~(r.result = "raise" /\ i = Len(r.calls)), "")]

\* variant: the deadline itself still inside the loop
LoopCondition_inclusive(w, clock, deadline) == w /\ clock <= deadline

\* while waiting and datetime.now() < waiting_timeout
LoopCondition(w, clock, deadline) == w /\ clock < deadline

\* one iteration of the loop of wait_for_finish
PollIteration ==
    /\ pc = "polling"
    /\ LoopCondition(waiting, now, waiting_timeout)
    /\ \E d \in 1..MaxSleep, fetched \in {Failed} \cup {Returned(snap) : snap \in PollSnapshots} :
         /\ now' = now + d
         /\ IF ~fetched.ok
            THEN /\ Abort(trace \o <<Local("sleep", TRUE), RemoteCall("describe_services", FALSE, "")>>,
                       "Exception")
                 /\ UNCHANGED <<service, eval, pollVars>>
            ELSE /\ service' = fetched.value
                 /\ polled' = TRUE
                 /\ \E l \in PollListTasks :
                    \E t \in (IF l.ok /\ Truthy(l.value) THEN PollDescribeTasks ELSE {Failed}) :
                      LET r == is_deployed(fetched.value, l, t)
                          errs == errors(fetched.value, now + d)
                          tr == trace \o <<Local("sleep", TRUE), RemoteCall("describe_services", TRUE, "")>>
                                      \o IsDeployedCalls(r)
                      IN /\ eval' = [eval EXCEPT !.op = "is_deployed", !.list_tasks = l,
                                                 !.describe_tasks = t, !.result = r.result,
                                                 !.calls = r.calls]
                         /\ IF r.result = "raise" \/ (r.result = "false" /\ errs.raised)
                            THEN Abort(tr, IF r.result = "raise" THEN "Exception" ELSE "TypeError")
                                 /\ UNCHANGED waiting
                            ELSE /\ waiting' = StillWaiting(r.result, errs)
                                 /\ trace' = tr
                                 /\ UNCHANGED <<pc, exit, verdict, exception>>
                 /\ UNCHANGED waiting_timeout
    /\ UNCHANGED <<tdVars, args, action_service, remote, runVars>>

\* variant: `if waiting:` alone decides between failure and success
FinishVerdict_ignoresErrors(w, bound, errs, older) ==
    IF w
    THEN IF ~bound \/ errs.raised \/ older.raised THEN "aborted" ELSE "timeout"
    ELSE "success"

\* The end of wait_for_finish: `if waiting or service.errors` prints the
\* errors and exits 1, else exit(0).  print_errors reads service.errors and
\* service.older_errors; with no iteration made `service` is unbound and the
\* read raises; an exception reaches the command's handler.
FinishVerdict(w, bound, errs, older) ==
    IF w
    THEN IF ~bound \/ errs.raised \/ older.raised THEN "aborted" ELSE "timeout"
    ELSE IF errs.raised THEN "aborted"
    ELSE IF Truthy(errs.errors)
    THEN IF older.raised THEN "aborted" ELSE "failure"
    ELSE "success"

\* the exception the end of wait_for_finish raises, "none" when it exits:
\* reading the unbound `service` is an UnboundLocalError, comparing a naive
\* with an aware datetime a TypeError
FinishException(w, bound, errs, older) ==
    IF FinishVerdict(w, bound, errs, older) # "aborted" THEN "none"
    ELSE IF w /\ ~bound THEN "UnboundLocalError"
    ELSE "TypeError"

Finish ==
    /\ pc = "polling"
    /\ ~LoopCondition(waiting, now, waiting_timeout)
    /\ verdict' = FinishVerdict(waiting, polled, errors(service, now), older_errors(service, now))
    /\ exception' = FinishException(waiting, polled, errors(service, now), older_errors(service, now))
    /\ exit' = IF verdict' = "success" THEN 0 ELSE 1
    /\ pc' = "done"
    /\ UNCHANGED <<tdVars, svcVars, args, trace, pollVars, action_service, remote, runVars>>

Next ==
    \/ Construct
    \/ GetCurrentTaskDefinition
    \/ CliSetImages
    \/ CliSetCommands
    \/ CliSetEnvironment
    \/ UpdateTaskDefinition
    \/ RecordDeployment
    \/ Deploy
    \/ Scale
    \/ WaitForFinish
    \/ PollIteration
    \/ Finish

Spec == Init /\ [][Next]_vars

\* the process is single-threaded and blocking: it keeps taking its next step
FairSpec == Spec /\ WF_vars(Next)

-----------------------------------------------------------------------------
(* The action objects in the hands of a caller: the construction of a       *)
(* DeployAction, a ScaleAction or a RunAction, and RunAction.run on a task  *)
(* definition on which the caller has called set_commands and               *)
(* set_environment.                                                         *)

ActionKinds == {"deploy", "scale", "run"}
RunCounts == {1, 2}
\* run-task responses: the call raises, or returns the started tasks
RunTaskResponses == {Failed, Returned(<<>>), Returned(<<"t1">>), Returned(<<"t2", "t3">>)}
\* the environment_list the caller gave set_environment
RunEnvs == {<<>>, << <<"c1", "X", "1">> >>}

InitActions ==
    /\ pc = "start"
    /\ args \in {[NoArgs EXCEPT !.command = k] : k \in ActionKinds}
    /\ trace = <<>>
    /\ exit = -1
    /\ waiting = FALSE
    /\ waiting_timeout = 0
    /\ polled = FALSE
    /\ verdict = "none"
    /\ action_service = NoActionService
    /\ remote = [taskDefinitions |-> {OldArn}, serviceTaskDefinition |-> OldArn, desiredCount |-> 1]
    /\ exception = "none"
    /\ started_tasks = <<>>
    /\ run = NoRun
    /\ service = NoService
    /\ now = 0
    /\ eval = NoEval
    /\ \E p \in Payloads, commands \in CommandOverrides, env \in RunEnvs :
          LET a == set_commands(p.containerDefinitions, <<>>, commands)
              b == set_environment(a.containers, a.diff, env)
          IN /\ containers = b.containers
             /\ diff = b.diff
             /\ taskRoleArn = p.taskRoleArn
             /\ call = [op |-> "set_environment", tag |-> None, kwargs |-> NoKwargs,
                        environment_list |-> env, role_arn |-> None, containers |-> a.containers,
                        diff |-> a.diff, taskRoleArn |-> p.taskRoleArn, result |-> b.result,
                        overrides |-> <<>>]
    /\ ncalls = 2

\* RunAction(client, cluster)
ConstructRun ==
    /\ pc = "start"
    /\ args.command = "run"
    /\ RunAction_init.raised = "none"
    /\ trace' = trace \o ConstructorCalls(RunAction_init, "ok")
    /\ started_tasks' = <<>>
    /\ pc' = "constructed"
    /\ UNCHANGED <<tdVars, svcVars, args, exit, pollVars, verdict, action_service, remote,
                   exception, run>>

\* RunAction.run given the response of run_task: what it returns ("True") or
\* that it raises ("raise", the client's exception), and started_tasks after it
RunAction_run(response, started) ==
    IF response.ok
    THEN [result |-> "True", started_tasks |-> response.value]
    ELSE [result |-> "raise", started_tasks |-> started]

\* action.run(task_definition, count, started_by)
Run ==
    /\ pc = "constructed"
    /\ args.command = "run"
    /\ run.n < MaxRuns
    /\ \E count \in RunCounts, response \in RunTaskResponses :
         LET r == RunAction_run(response, started_tasks) IN
         /\ started_tasks' = r.started_tasks
         /\ run' = [n |-> run.n + 1, count |-> count, overrides |-> get_overrides(diff),
                    response |-> response, result |-> r.result, started_tasks |-> started_tasks]
    /\ UNCHANGED <<tdVars, svcVars, pc, args, trace, exit, pollVars, verdict, action_service,
                   remote, exception>>

NextActions == Construct \/ ConstructRun \/ Run

SpecActions == InitActions /\ [][NextActions]_vars

-----------------------------------------------------------------------------
(* Claims on the task definition model (SpecTD) *)

\* the container names a mutation call names
NamedContainers(c) ==
    IF c.op = "set_environment"
    THEN {c.environment_list[i][1] : i \in 1..Len(c.environment_list)}
    ELSE DOMAIN c.kwargs

IsContainerMutation(c) == c.op \in {"set_images", "set_commands", "set_environment"}

\* C1: a set_images, set_commands or set_environment call that names at least
\* one container absent from the task definition fails with
\* UnknownContainerError and leaves the containers and the diff list as they
\* were, also when it names existing containers too.
C1_UnknownContainerRejected ==
    (IsContainerMutation(call) /\ ~(NamedContainers(call) \subseteq container_names(call.containers)))
        => /\ call.result = "UnknownContainerError"
           /\ containers = call.containers
           /\ diff = call.diff

\* a rejected set_images call with a tag that names an existing and an unknown container
C1_Witness ==
    /\ call.op = "set_images"
    /\ TruthyOpt(call.tag)
    /\ NamedContainers(call) = {"c1", "cx"}
    /\ call.result = "UnknownContainerError"

\* the positions of df at which a run of diffs of one container starts; a
\* leading run of definition-level diffs (container None) starts no run
RunStarts(df) ==
    {n \in 1..Len(df) : df[n].container # (IF n = 1 THEN None ELSE df[n - 1].container)}
\* the last position of the run that starts at n
RunEnd(df, n) ==
    CHOOSE m \in n..Len(df) :
        /\ \A k \in n..m : df[k].container = df[n].container
        /\ (m = Len(df) \/ df[m + 1].container # df[n].container)
\* the k-th smallest element of a set of numbers
Nth(S, k) == CHOOSE n \in S : Cardinality({m \in S : m < n}) = k - 1
\* the positions in n..m of the diffs of a field
FieldAt(df, n, m, field) == {k \in n..m : df[k].field = field}
Max(S) == CHOOSE n \in S : \A m \in S : m <= n
\* ' '.join(tokens)
RECURSIVE JoinSpaces(_)
JoinSpaces(tokens) ==
    IF Len(tokens) = 1 THEN tokens[1]
    ELSE tokens[1] \o <<" ">> \o JoinSpaces(Tail(tokens))
IsTokenised(tokens, command) ==
    /\ Len(tokens) >= 1
    /\ \A i \in 1..Len(tokens) : \A j \in 1..Len(tokens[i]) : tokens[i][j] # " "
    /\ JoinSpaces(tokens) = command
IsNameValueList(l, d) ==
    /\ Len(l) = Len(d)
    /\ \A i \in 1..Len(l) : l[i] = [name |-> d[i].name, value |-> d[i].value]

UniqueNames(ov) == \A i, j \in 1..Len(ov) : i # j => ov[i].name # ov[j].name

\* C6 as stated: after any sequence of successful mutation calls no container
\* name appears in more than one record of get_overrides.
C6_OnePerContainer == UniqueNames(get_overrides(diff))

\* C6 amended: get_overrides returns one record per run of consecutive diffs
\* of the same container, in diff order; the record carries the run's
\* container name, the tokenised value of the run's last command diff and the
\* {name, value} list of the run's last environment diff, each only when the
\* run has such a diff.
C6_OnePerRun ==
    LET ov == get_overrides(diff)
        starts == RunStarts(diff)
    IN /\ Len(ov) = Cardinality(starts)
       /\ \A k \in 1..Len(ov) :
            LET n == Nth(starts, k)
                m == RunEnd(diff, n)
                cmds == FieldAt(diff, n, m, "command")
                envs == FieldAt(diff, n, m, "environment")
            IN /\ ov[k].name = diff[n].container
               /\ IF cmds = {} THEN IsNone(ov[k].command)
                  ELSE /\ ~IsNone(ov[k].command)
                       /\ IsTokenised(Get(ov[k].command), diff[Max(cmds)].value.s)
               /\ IF envs = {} THEN IsNone(ov[k].environment)
                  ELSE /\ ~IsNone(ov[k].environment)
                       /\ IsNameValueList(Get(ov[k].environment), diff[Max(envs)].value.e)

\* two runs of the same container, the first with a command and an environment diff
C6_Witness ==
    LET ov == get_overrides(diff) IN
    /\ Len(diff) = 3
    /\ Len(ov) = 2
    /\ ~IsNone(ov[1].command) /\ ~IsNone(ov[1].environment)
    /\ Len(Get(ov[1].command)) = 2

\* C10 as stated: a set_images call whose overrides name only existing
\* containers gives exactly the named containers their override image and
\* leaves every other container identical, whatever the tag.
ImagesOnlyNamedChanged ==
    /\ Len(containers) = Len(call.containers)
    /\ \A i \in 1..Len(containers) :
         containers[i] =
            IF call.containers[i].name \in DOMAIN call.kwargs
            THEN [call.containers[i] EXCEPT !.image = call.kwargs[call.containers[i].name]]
            ELSE call.containers[i]

C10_OnlyNamedChanged ==
    (call.op = "set_images" /\ DOMAIN call.kwargs \subseteq container_names(call.containers))
        => ImagesOnlyNamedChanged

\* C10 amended: the same, for calls whose tag is absent or empty.
C10_OnlyNamedChangedNoTag ==
    (/\ call.op = "set_images"
     /\ DOMAIN call.kwargs \subseteq container_names(call.containers)
     /\ ~TruthyOpt(call.tag))
        => ImagesOnlyNamedChanged

\* set_images('', c1=...) changed c1 and left c2 alone
C10_Witness ==
    /\ call.op = "set_images"
    /\ call.tag = Some(<<>>)
    /\ DOMAIN call.kwargs = {"c1"}
    /\ call.result = "ok"
    /\ containers[1].image # call.containers[1].image
    /\ containers[2] = call.containers[2]

\* p is the part of s before its last ':', the whole of s when it has none
IsBeforeLastColon(p, s) ==
    \/ (p = s /\ \A k \in 1..Len(s) : s[k] # ":")
    \/ \E k \in 1..Len(s) :
          /\ s[k] = ":"
          /\ \A j \in (k + 1)..Len(s) : s[j] # ":"
          /\ p = SubSeq(s, 1, k - 1)
\* t is s without its leading and trailing spaces
IsTrimOf(t, s) ==
    /\ (Len(t) > 0 => (t[1] # " " /\ t[Len(t)] # " "))
    /\ \E a \in 0..Len(s) : \E b \in a..Len(s) :
          /\ t = SubSeq(s, a + 1, b)
          /\ \A k \in (1..a) \cup ((b + 1)..Len(s)) : s[k] = " "
\* img is p ':' t for the part p of old before its last ':' and the trimmed tag t
IsRetagged(img, old, tag) ==
    \E n \in 0..Len(img) :
        /\ n + 1 <= Len(img)
        /\ img[n + 1] = ":"
        /\ IsBeforeLastColon(SubSeq(img, 1, n), old)
        /\ IsTrimOf(SubSeq(img, n + 2, Len(img)), tag)

\* C11: a set_images call with a non-empty tag whose overrides name only
\* existing containers gives every container without an override the part of
\* its old image before the last ':' followed by ':' and the trimmed tag, gives
\* every container with an override the override image, changes nothing else,
\* and appends one image diff (new image, old image) per container, in
\* container order.
C11_TagRetagsTheRest ==
    (/\ call.op = "set_images"
     /\ TruthyOpt(call.tag)
     /\ DOMAIN call.kwargs \subseteq container_names(call.containers))
        => /\ Len(containers) = Len(call.containers)
           /\ \A i \in 1..Len(containers) :
                /\ containers[i] = [call.containers[i] EXCEPT !.image = containers[i].image]
                /\ IF call.containers[i].name \in DOMAIN call.kwargs
                   THEN containers[i].image = call.kwargs[call.containers[i].name]
                   ELSE IsRetagged(containers[i].image, call.containers[i].image, Get(call.tag))
           /\ Len(diff) = Len(call.diff) + Len(containers)
           /\ SubSeq(diff, 1, Len(call.diff)) = call.diff
           /\ \A i \in 1..Len(containers) :
                diff[Len(call.diff) + i] =
                    EcsTaskDefinitionDiff(Some(call.containers[i].name), "image",
                        StrVal(containers[i].image), StrVal(call.containers[i].image))

\* set_images(' b ', c1=...) on a definition whose c2 has the image h:p: c1
\* got the override, c2 became h:b, after an earlier call had left diffs
C11_Witness ==
    /\ call.op = "set_images"
    /\ call.tag = Some(<<" ", "b", " ">>)
    /\ DOMAIN call.kwargs = {"c1"}
    /\ call.result = "ok"
    /\ Len(call.diff) > 0
    /\ containers[1].image = <<"n", ":", "v">>
    /\ call.containers[2].image = <<"h", ":", "p">>
    /\ containers[2].image = <<"h", ":", "b">>

\* the environment of a container as a mapping: its (name, value) pairs
EnvMapping(c) ==
    IF IsNone(c.environment) THEN {}
    ELSE {<<Get(c.environment)[i].name, Get(c.environment)[i].value>> :
            i \in 1..Len(Get(c.environment))}
\* a successful set_environment call is followed by the same call
SameEnvironmentAgain ==
    /\ call.op = "set_environment"
    /\ call.result = "ok"
    /\ call'.op = "set_environment"
    /\ call'.environment_list = call.environment_list

\* C12: set_environment called a second time in a row with the same list of
\* triples, all naming existing containers, leaves every container with the
\* environment the first call gave it: the same list of variables, hence the
\* same mapping.
C12_SetEnvironmentIdempotent ==
    [][SameEnvironmentAgain =>
          /\ call'.result = "ok"
          /\ Len(containers') = Len(containers)
          /\ \A i \in 1..Len(containers) :
               /\ containers'[i].environment = containers[i].environment
               /\ EnvMapping(containers'[i]) = EnvMapping(containers[i])]_vars

\* the second of two set_environment calls that changed a variable the
\* container already had: it merged to the mapping it found
C12_Witness ==
    /\ ncalls = 2
    /\ call.op = "set_environment"
    /\ call.result = "ok"
    /\ call.environment_list = << <<"c2", "X", "3">> >>
    /\ Len(diff) = 2
    /\ diff[1].field = "environment" /\ diff[2].field = "environment"
    /\ diff[1].container = Some("c2")
    /\ diff[1].old_value # diff[1].value
    /\ diff[2].old_value = diff[1].value
    /\ diff[2].value = diff[1].value

\* a dict as a mapping: its (name, value) pairs
DictMapping(d) == {<<d[i].name, d[i].value>> : i \in 1..Len(d)}
\* the positions of the triples of a call that name the container
TriplesOf(c, name) == {k \in 1..Len(c.environment_list) : c.environment_list[k][1] = name}
\* the variables a call gives the container, each with the value of its last triple
GivenVariables(c, name) ==
    {<<c.environment_list[k][2], c.environment_list[k][3]>> : k \in
        {k \in TriplesOf(c, name) :
            \A j \in TriplesOf(c, name) :
                c.environment_list[j][2] = c.environment_list[k][2] => j <= k}}
\* the mapping the claim expects for a named container: the given variables,
\* and the old value of every other variable
OverlaidMapping(c, old) ==
    GivenVariables(c, old.name)
    \cup {p \in EnvMapping(old) : \A g \in GivenVariables(c, old.name) : g[1] # p[1]}
\* the positions of the containers a call names, in container order
AffectedContainers(c) ==
    {i \in 1..Len(c.containers) : TriplesOf(c, c.containers[i].name) # {}}

\* C13: a set_environment call that names only existing containers gives each
\* named container the environment that maps every variable of the call to
\* the value of its last triple and every other variable to its old value,
\* each variable once; leaves the other containers as they were; and appends
\* one environment diff per named container, in container order, whose value
\* is the merged mapping and whose old value is the previous mapping.
C13_EnvironmentOverlays ==
    (/\ call.op = "set_environment"
     /\ NamedContainers(call) \subseteq container_names(call.containers))
        => /\ call.result = "ok"
           /\ Len(containers) = Len(call.containers)
           /\ \A i \in 1..Len(containers) :
                IF i \in AffectedContainers(call)
                THEN /\ containers[i] = [call.containers[i] EXCEPT !.environment = containers[i].environment]
                     /\ ~IsNone(containers[i].environment)
                     /\ EnvMapping(containers[i]) = OverlaidMapping(call, call.containers[i])
                     /\ Cardinality(EnvMapping(containers[i])) = Len(Get(containers[i].environment))
                     /\ \A p, q \in EnvMapping(containers[i]) : p[1] = q[1] => p = q
                ELSE containers[i] = call.containers[i]
           /\ Len(diff) = Len(call.diff) + Cardinality(AffectedContainers(call))
           /\ SubSeq(diff, 1, Len(call.diff)) = call.diff
           /\ \A k \in 1..Cardinality(AffectedContainers(call)) :
                LET i == Nth(AffectedContainers(call), k)
                    d == diff[Len(call.diff) + k]
                IN /\ d.container = Some(call.containers[i].name)
                   /\ d.field = "environment"
                   /\ d.value.t = "dict" /\ d.old_value.t = "dict"
                   /\ DictMapping(d.value.e) = EnvMapping(containers[i])
                   /\ DictMapping(d.old_value.e) = EnvMapping(call.containers[i])

\* set_environment with (c1, X, 2), (c1, X, 1) on a container that had Y = 2:
\* X is 1, Y is kept, c2 is untouched, one diff is appended
C13_Witness ==
    /\ call.op = "set_environment"
    /\ call.environment_list = << <<"c1", "X", "2">>, <<"c1", "X", "1">> >>
    /\ EnvMapping(call.containers[1]) = {<<"Y", "2">>}
    /\ EnvMapping(containers[1]) = {<<"X", "1">>, <<"Y", "2">>}
    /\ containers[2] = call.containers[2]
    /\ Len(diff) = Len(call.diff) + 1

-----------------------------------------------------------------------------
(* Claims on the service model and is_deployed (SpecSvc) *)

WarningKeys(w) == {w.errors[i].name : i \in 1..Len(w.errors)}
MarkerEvents == {i \in 1..Len(service.events) : HasMarker(service.events[i].message)}
WarningsReturned == eval.op = "warnings" /\ ~eval.errors.raised /\ ~eval.older_errors.raised

\* errors holds only marker events strictly between deployment_updated_at and now
ErrorsOnlyCurrent ==
    \A i \in 1..Len(eval.errors.errors) :
        \E j \in MarkerEvents :
            /\ service.events[j].createdAt = eval.errors.errors[i].name
            /\ service.events[j].message = eval.errors.errors[i].value
            /\ deployment_updated_at(service, now).t < service.events[j].createdAt.t
            /\ service.events[j].createdAt.t < now

C8_SeveralDeploymentsNotDeployed ==
    (eval.op = "is_deployed" /\ Len(service.deployments) > 1) => eval.result = "false"

\* two deployments, desired count 0, an empty task list
C8_Witness ==
    /\ eval.op = "is_deployed"
    /\ Len(service.deployments) = 2
    /\ service.desiredCount = 0
    /\ eval.list_tasks = Returned(<<>>)
    /\ eval.result = "false"

DesiredZeroNoTasks ==
    /\ eval.op = "is_deployed"
    /\ service.desiredCount = 0
    /\ eval.list_tasks = Returned(<<>>)

TrueWithoutDescribeTasks ==
    /\ eval.result = "true"
    /\ \A i \in 1..Len(eval.calls) : eval.calls[i] # "describe_tasks"

\* C9 as stated: with desired count 0 and an empty list-tasks response
\* is_deployed returns true and issues no describe-tasks call.
C9_DesiredZeroDeployed == DesiredZeroNoTasks => TrueWithoutDescribeTasks

\* C9 amended: the same, for a service with exactly one deployment.
C9_DesiredZeroDeployedOneDeployment ==
    (DesiredZeroNoTasks /\ Len(service.deployments) = 1) => TrueWithoutDescribeTasks

\* one deployment, desired count 0, an empty task list: true after list_tasks alone
C9_Witness ==
    /\ DesiredZeroNoTasks
    /\ Len(service.deployments) = 1
    /\ eval.result = "true"
    /\ eval.calls = <<"list_tasks">>

\* the described tasks that run the service's task definition
RunningOfService ==
    {i \in 1..Len(eval.describe_tasks.value) :
        /\ eval.describe_tasks.value[i].taskDefinitionArn = service.taskDefinition
        /\ eval.describe_tasks.value[i].lastStatus = "RUNNING"}

\* C17: on a service with exactly one deployment, is_deployed given a
\* non-empty task list returns true exactly when the number of described
\* tasks that have the service's task definition arn and the status RUNNING
\* equals the desired count, and given an empty task list and a desired count
\* other than 0 it returns false.
C17_DeployedIffRunningCountMatches ==
    (/\ eval.op = "is_deployed"
     /\ Len(service.deployments) = 1
     /\ eval.list_tasks.ok)
        => IF Truthy(eval.list_tasks.value)
           THEN eval.describe_tasks.ok =>
                  /\ eval.result \in {"true", "false"}
                  /\ eval.result = "true" <=> Cardinality(RunningOfService) = service.desiredCount
           ELSE service.desiredCount # 0 => eval.result = "false"

\* desired count 1, two tasks described, one RUNNING on the service's
\* definition and one RUNNING on another: deployed
C17_Witness ==
    /\ eval.op = "is_deployed"
    /\ Len(service.deployments) = 1
    /\ service.desiredCount = 1
    /\ eval.list_tasks = Returned(<<"t1", "t2">>)
    /\ eval.describe_tasks =
          Returned(<< [taskDefinitionArn |-> CurrentArn, lastStatus |-> "RUNNING"],
                      [taskDefinitionArn |-> OtherArn, lastStatus |-> "RUNNING"] >>)
    /\ eval.result = "true"

-----------------------------------------------------------------------------
(* Claims on the deploy and scale commands (Spec) *)

\* service.errors of the snapshot the poller holds, read now
SnapshotErrors == errors(service, now)
SnapshotHasErrors == ~SnapshotErrors.raised /\ Truthy(SnapshotErrors.errors)
SnapshotHasNoErrors == ~SnapshotErrors.raised /\ ~Truthy(SnapshotErrors.errors)
\* the last iteration fetched a snapshot and is_deployed returned b on it
LastIsDeployed(b) ==
    /\ polled
    /\ eval.op = "is_deployed"
    /\ eval.result = b
    /\ is_deployed(service, eval.list_tasks, eval.describe_tasks).result = b

\* C2: the poller reports a non-timeout failure only on a fetched snapshot
\* with errors; an iteration whose snapshot is not deployed and has no errors
\* does not end the loop before the deadline; an iteration whose snapshot has
\* errors ends the loop, and the step after it is the failure exit, with no
\* sleep or remote call in between.
C2_FailFastOnlyOnErrors ==
    /\ [](verdict = "failure" => (polled /\ SnapshotHasErrors))
    /\ []((/\ pc \in {"polling", "done"}
           /\ LastIsDeployed("false")
           /\ SnapshotHasNoErrors
           /\ now < waiting_timeout
           /\ verdict # "aborted") => (pc = "polling" /\ waiting))
    /\ []((pc = "polling" /\ polled /\ SnapshotHasErrors) => ~waiting)
    /\ [][(pc = "polling" /\ polled /\ SnapshotHasErrors)
            => (pc' = "done" /\ verdict' = "failure" /\ exit' = 1 /\ trace' = trace)]_vars

\* a failure reported before the deadline
C2_Witness ==
    /\ pc = "done"
    /\ verdict = "failure"
    /\ now < waiting_timeout
    /\ LastIsDeployed("false")

\* C3: the process exits with 0 or 1 once the command is done, and with 0
\* exactly when the poller's last fetched snapshot satisfied is_deployed and
\* has no errors.
C3_ExitZeroIffConverged ==
    pc = "done" =>
        /\ exit \in {0, 1}
        /\ exit = 0 <=> (LastIsDeployed("true") /\ SnapshotHasNoErrors)

\* a deployed snapshot with errors ended in failure
C3_Witness ==
    /\ pc = "done"
    /\ LastIsDeployed("true")
    /\ SnapshotHasErrors
    /\ exit = 1

IsRemote(e) == e.remote
RemoteCalls == SelectSeq(trace, IsRemote)
Recording == TruthyOpt(args.tag) /\ args.newrelic
DeployCalls ==
    <<"describe_services", "describe_task_definition", "register_task_definition",
      "deregister_task_definition">>
    \o (IF Recording THEN <<"record_deployment">> ELSE <<>>)
    \o <<"update_service">>
PollingCalls == {"describe_services", "list_tasks", "describe_tasks"}
SucceededBefore(i, name) == \E j \in 1..(i - 1) : trace[j].call = name /\ trace[j].ok

\* C4: the remote calls of a deploy run are, in order, describe-services,
\* describe-task-definition, register-task-definition,
\* deregister-task-definition of the old arn, record-deployment when one is
\* due, update-service with the new revision's arn, then the poller's calls;
\* update-service comes after a successful register and deregister; register,
\* deregister and update-service come after all three mutations succeeded.
C4_DeployCallOrder ==
    args.command = "deploy" =>
        /\ \A i \in 1..Len(RemoteCalls) :
             IF i <= Len(DeployCalls)
             THEN RemoteCalls[i].call = DeployCalls[i]
             ELSE RemoteCalls[i].call \in PollingCalls
        /\ \A i \in 1..Len(trace) :
             /\ trace[i].call = "deregister_task_definition" => trace[i].arg = OldArn
             /\ trace[i].call = "update_service" =>
                    /\ trace[i].arg = NewArn
                    /\ SucceededBefore(i, "register_task_definition")
                    /\ SucceededBefore(i, "deregister_task_definition")
             /\ trace[i].call \in {"register_task_definition", "deregister_task_definition",
                                    "update_service"} =>
                    /\ SucceededBefore(i, "set_images")
                    /\ SucceededBefore(i, "set_commands")
                    /\ SucceededBefore(i, "set_environment")
             /\ trace[i].call = "sleep" => SucceededBefore(i, "update_service")

\* a deploy run that recorded the deployment, updated the service and polled to success
C4_Witness ==
    /\ args.command = "deploy"
    /\ pc = "done"
    /\ exit = 0
    /\ \E i \in 1..Len(trace) : trace[i].call = "record_deployment"
    /\ \E i \in 1..Len(trace) : trace[i].call = "describe_tasks"

\* C5: once a remote call has failed nothing more is called, and the process
\* has ended with status 1.
C5_NoCallAfterFailure ==
    \A i \in 1..Len(trace) :
        (trace[i].remote /\ ~trace[i].ok) => (i = Len(trace) /\ pc = "done" /\ exit = 1)

\* a describe-tasks call that failed in the second iteration of the poller
C5_Witness ==
    /\ pc = "done"
    /\ exit = 1
    /\ Len(trace) > 0
    /\ trace[Len(trace)].call = "describe_tasks"
    /\ ~trace[Len(trace)].ok
    /\ Cardinality({i \in 1..Len(trace) : trace[i].call = "sleep"}) = 2

\* the loop of wait_for_finish is left with the deadline reached and no convergence
DeadlineReached == pc = "polling" /\ waiting /\ ~(now < waiting_timeout)
\* the last sleep of the trace is followed by a describe-services call that returned
LastFetchReturned ==
    \E i \in 1..Len(trace) :
        /\ trace[i].call = "sleep"
        /\ \A j \in (i + 1)..Len(trace) : trace[j].call # "sleep"
        /\ i < Len(trace)
        /\ trace[i + 1].call = "describe_services"
        /\ trace[i + 1].ok

\* C16: when the poller leaves its loop with the deadline reached and no
\* convergence, whatever the timeout, 0 included, the next step ends the
\* process with a timeout failure (exit 1, no exception) and the snapshot the
\* report reads is bound and is the one the last iteration fetched.
C16_TimeoutReportsFetchedSnapshot ==
    [][DeadlineReached =>
          /\ pc' = "done"
          /\ verdict' = "timeout"
          /\ exit' = 1
          /\ exception' = "none"
          /\ polled
          /\ LastFetchReturned
          /\ service' = service]_vars

\* the iterations of the polling loop so far: each starts with its sleep
Sleeps == {i \in 1..Len(trace) : trace[i].call = "sleep"}
\* sleep, then fetch, then the calls of the convergence evaluation: every
\* sleep is followed by a describe-services call, every describe-services call
\* but the constructor's follows a sleep, list-tasks follows a describe-services
\* call that returned and describe-tasks a list-tasks call that returned
IterationOrder ==
    \A i \in 1..Len(trace) :
        /\ trace[i].call = "sleep" =>
              (i < Len(trace) /\ trace[i + 1].call = "describe_services")
        /\ (trace[i].call = "describe_services" /\ i > 1) => trace[i - 1].call = "sleep"
        /\ trace[i].call = "list_tasks" =>
              (i > 1 /\ trace[i - 1].call = "describe_services" /\ trace[i - 1].ok)
        /\ trace[i].call = "describe_tasks" =>
              (i > 1 /\ trace[i - 1].call = "list_tasks" /\ trace[i - 1].ok)

\* C18: with every sleep advancing the clock by at least one unit, the poller
\* makes at most as many iterations as the timeout has units, each iteration
\* sleeps, then fetches, then evaluates convergence, so no fetch precedes the
\* first sleep; the poller always ends, and the process exits exactly once,
\* with status 0 or 1.
C18_PollerTerminates ==
    /\ [](Cardinality(Sleeps) <= args.timeout)
    /\ []IterationOrder
    /\ (pc = "polling") ~> (pc = "done")
    /\ []((pc = "done") <=> (exit \in {0, 1}))
    /\ []((pc # "done") <=> (exit = -1))
    /\ [][exit # -1 => exit' = exit]_vars

\* a service that never converged and never reported errors: with timeout 2
\* and sleeps of one unit, two iterations, then the timeout exit
C18_Witness ==
    /\ pc = "done"
    /\ verdict = "timeout"
    /\ args.timeout = 2
    /\ Cardinality(Sleeps) = 2
    /\ exit = 1

\* the last trace entry of the iteration whose sleep is at position i
IterationEnd(i) ==
    CHOOSE n \in i..Len(trace) :
        /\ \A k \in (i + 1)..n : trace[k].call # "sleep"
        /\ (n = Len(trace) \/ trace[n + 1].call = "sleep")
\* the names of the remote calls of the iteration whose sleep is at position i
IterationCalls(i) == [k \in 1..(IterationEnd(i) - i) |-> trace[i + k].call]
IsPrefix(a, b) == Len(a) <= Len(b) /\ a = SubSeq(b, 1, Len(a))
LastSleep == Max(Sleeps)

\* C19 as stated: every iteration of the polling loop issues one or two remote
\* calls: a describe-services call, and possibly a describe-tasks call.
C19_OneOrTwoCalls ==
    \A i \in Sleeps :
        /\ \A k \in 1..Len(IterationCalls(i)) : trace[i + k].remote
        /\ Len(IterationCalls(i)) \in {1, 2}
        /\ IterationCalls(i)[1] = "describe_services"
        /\ Len(IterationCalls(i)) = 2 => IterationCalls(i)[2] = "describe_tasks"

\* C19 amended: every iteration issues one to three remote calls, in the
\* order describe-services, list-tasks, describe-tasks; list-tasks is issued
\* exactly when describe-services returned a snapshot with exactly one
\* deployment, describe-tasks exactly when list-tasks then returned a
\* non-empty list (the two conditions are stated on the last iteration, whose
\* snapshot and responses the state holds).
C19_OneToThreeCalls ==
    /\ \A i \in Sleeps :
          /\ \A k \in 1..Len(IterationCalls(i)) : trace[i + k].remote
          /\ Len(IterationCalls(i)) \in {1, 2, 3}
          /\ IsPrefix(IterationCalls(i), <<"describe_services", "list_tasks", "describe_tasks">>)
    /\ Sleeps # {} =>
          LET c == IterationCalls(LastSleep) IN
          /\ Len(c) >= 2 <=> (trace[LastSleep + 1].ok /\ Len(service.deployments) = 1)
          /\ Len(c) = 3 <=> (/\ Len(c) >= 2
                             /\ eval.list_tasks.ok
                             /\ Truthy(eval.list_tasks.value))

\* two iterations: the first fetched a snapshot with two deployments and made
\* one call, the second a snapshot with one deployment and made three
C19_Witness ==
    /\ Cardinality(Sleeps) = 2
    /\ \E i \in Sleeps : Len(IterationCalls(i)) = 1 /\ trace[i + 1].ok
    /\ Len(IterationCalls(LastSleep)) = 3
    /\ pc = "done"
    /\ exit = 0

\* register-task-definition succeeded and the deregister-task-definition of
\* the old arn that followed it failed
DeregisterFailed ==
    \E i \in 1..Len(trace) :
        /\ trace[i].call = "deregister_task_definition"
        /\ trace[i].arg = OldArn
        /\ ~trace[i].ok
        /\ i > 1
        /\ trace[i - 1].call = "register_task_definition"
        /\ trace[i - 1].ok

\* C20: when register-task-definition succeeded and the deregistration of
\* the old arn failed, the new and the old revision are both registered, the
\* failed deregistration is the last call made (no second deregistration, no
\* record-deployment, no update-service), the service references the old
\* revision, and the process has ended with status 1.
C20_NoRollback ==
    DeregisterFailed =>
        /\ {OldArn, NewArn} \subseteq remote.taskDefinitions
        /\ trace[Len(trace)].call = "deregister_task_definition"
        /\ trace[Len(trace)].arg = OldArn
        /\ \A i \in 1..Len(trace) : trace[i].call \notin {"update_service", "record_deployment"}
        /\ remote.serviceTaskDefinition = OldArn
        /\ pc = "done"
        /\ exit = 1

\* a deploy with a tag and a deployment to record, ended by the failed deregistration
C20_Witness ==
    /\ DeregisterFailed
    /\ args.command = "deploy"
    /\ Recording
    /\ Len(diff) > 0
    /\ exit = 1

-----------------------------------------------------------------------------
(* Claims on the action objects (SpecActions) *)

\* the describe-services calls made so far
FetchCalls == {i \in 1..Len(trace) : trace[i].call = "describe_services"}
\* the outcomes of get_service the claim names: the service is not found, the
\* credentials are missing, the call fails
FetchFailures == {"IndexError", "NoCredentialsError", "ClientError"}
\* a constructor has run and left no object behind
NoActionObject ==
    /\ pc = "done"
    /\ action_service = NoActionService
    /\ run.n = 0
\* the constructor fetched the service once and failed with ConnectionError
\* when the fetch failed in one of the named ways
FetchedOnceOrConnectionError ==
    /\ Cardinality(FetchCalls) = 1
    /\ \A i \in FetchCalls :
         /\ trace[i].arg \in FetchFailures => (exception = "ConnectionError" /\ NoActionObject)
         /\ ~trace[i].ok => NoActionObject

C15_RunReportsBoolean ==
    run.n > 0 =>
        IF run.response.ok
        THEN run.result = "True" /\ started_tasks = run.response.value
        ELSE run.result = "False" /\ started_tasks = run.started_tasks

-----------------------------------------------------------------------------
(* Claims on the diff list of the task definition (SpecTD) *)

\* the last call appended nothing
AppendedNothing == diff = call.diff
\* the last call appended exactly one diff, of the definition itself
AppendedOneDefinitionDiff ==
    /\ Len(diff) = Len(call.diff) + 1
    /\ IsPrefix(call.diff, diff)
    /\ diff[Len(diff)].container = None

\* C21: every step leaves the earlier diff list a prefix of the later one; a
\* set_images, set_commands or set_environment call that failed and a
\* get_overrides call appended nothing; a set_role_arn call with an absent or
\* empty value appended nothing and left the role arn as it was, and with a
\* value it appended exactly one diff, whose container is null.
C21_DiffListOnlyAppends ==
    /\ [][IsPrefix(diff, diff')]_vars
    /\ []((IsContainerMutation(call) /\ call.result # "ok") => AppendedNothing)
    /\ [](call.op = "get_overrides" => AppendedNothing)
    /\ [](call.op = "set_role_arn" =>
            IF TruthyOpt(call.role_arn)
            THEN AppendedOneDefinitionDiff
            ELSE AppendedNothing /\ taskRoleArn = call.taskRoleArn)

-----------------------------------------------------------------------------
(* Claims on the mutations of the deploy command (Spec) *)

Mutations == {"set_images", "set_commands", "set_environment"}
StateChangingCalls ==
    {"register_task_definition", "deregister_task_definition", "record_deployment",
     "update_service"}
\* one of the three mutations of the run was rejected
MutationFailed ==
    \E i \in 1..Len(trace) : trace[i].call \in Mutations /\ ~trace[i].remote /\ ~trace[i].ok

\* C22: when set_images, set_commands or set_environment of a deploy run
\* failed with UnknownContainerError, also after an earlier mutation of the
\* run succeeded, no register-task-definition, deregister-task-definition,
\* record-deployment or update-service call is in the trace, the remote task
\* definitions and the service are as they were at the start, and the process
\* has ended with status 1.
C22_FailedMutationChangesNothingRemote ==
    MutationFailed =>
        /\ exception = "UnknownContainerError"
        /\ \A i \in 1..Len(trace) : trace[i].call \notin StateChangingCalls
        /\ ~trace[Len(trace)].remote /\ ~trace[Len(trace)].ok
        /\ remote = [taskDefinitions |-> {OldArn}, serviceTaskDefinition |-> OldArn,
                     desiredCount |-> 1]
        /\ pc = "done"
        /\ exit = 1

\* set_images with a tag changed the images, then set_commands named an
\* unknown container
C22_Witness ==
    /\ MutationFailed
    /\ Len(diff) > 0
    /\ \E i \in 1..Len(trace) : trace[i].call = "set_images" /\ trace[i].ok
    /\ trace[Len(trace)].call = "set_commands"
    /\ exit = 1

====
